---- MODULE Spec2Model ----
(***************************************************************************)
(* Model of the prompt generation agent (prompt_agent.py): the spec        *)
(* parser, the character combination generator, the prompt renderer and    *)
(* the batch orchestrator generate_prompts_from_input, its interactive     *)
(* loop main(), and of the image-generation driver (test.py).              *)
(*                                                                         *)
(* A Python str is modelled as a sequence of one-character strings, so     *)
(* that split, strip, int(), the size-bracket regular expression and the   *)
(* f-string rendering are computed character by character.                 *)
(***************************************************************************)
EXTENDS Integers, Sequences, FiniteSets, TLC

(***************************************************************************)
(* Bounds of the model.                                                    *)
(***************************************************************************)
\* largest scene count tried
MaxCount == 3
\* longest names list handed directly to the generator / renderer
MaxNames == 3
\* largest number written in a size bracket [min] or [min-max]
MaxSize == 2
\* longest JOINT_PROMPTS list the driver is run over
MaxPrompts == 2

(***************************************************************************)
(* String literals of the program and of the inputs.                       *)
(***************************************************************************)
Orca == <<"O", "r", "c", "a">>
Tung == <<"T", "u", "n", "g">>
Fish == <<"F", "i", "s", "h">>
\* a name that is not a key of character_themes
Bob == <<"B", "o", "b">>
ALL == <<"A", "L", "L">>
RANDOM == <<"R", "A", "N", "D", "O", "M">>
playing == <<"p", "l", "a", "y", "i", "n", "g">>
eating == <<"e", "a", "t", "i", "n", "g">>
\* an action that is not a key of action_templates
jump == <<"j", "u", "m", "p">>
park == <<"p", "a", "r", "k">>
mountain == <<"m", "o", "u", "n", "t", "a", "i", "n">>
snowy_mountain_landscape == <<"s", "n", "o", "w", "y", " ", "m", "o", "u", "n", "t", "a", "i", "n", " ", "l", "a", "n", "d", "s", "c", "a", "p", "e">>
\* a location that is not a key of location_templates
zoo == <<"z", "o", "o">>

(***************************************************************************)
(* The catalog (PromptAgent.__init__), cut down to three characters, two   *)
(* actions and two locations; the order is the declaration order.          *)
(***************************************************************************)
character_themes == <<Orca, Tung, Fish>>
location_templates == << <<park, park>>, <<mountain, snowy_mountain_landscape>> >>
action_templates == << <<playing, playing>>, <<eating, eating>> >>

\* list(d.keys())
Keys(d) == [i \in 1..Len(d) |-> d[i][1]]

\* key in d, for the list of keys of character_themes
InCatalog(name) == \E i \in 1..Len(character_themes) : character_themes[i] = name

\* d.get(key, key)
GetOrKey(d, key) ==
  IF \E i \in 1..Len(d) : d[i][1] = key
  THEN d[CHOOSE i \in 1..Len(d) : d[i][1] = key][2]
  ELSE key

(***************************************************************************)
(* Python string primitives.                                               *)
(***************************************************************************)
Digits == <<"0", "1", "2", "3", "4", "5", "6", "7", "8", "9">>

IsDigit(c) == \E d \in 1..10 : Digits[d] = c

DigitVal(c) == (CHOOSE d \in 1..10 : Digits[d] = c) - 1

IsSpace(c) == c = " "

\* str.strip()
RECURSIVE Strip(_)
Strip(s) ==
  IF s = <<>> THEN s
  ELSE IF IsSpace(s[1]) THEN Strip(Tail(s))
  ELSE IF IsSpace(s[Len(s)]) THEN Strip(SubSeq(s, 1, Len(s) - 1))
  ELSE s

\* str.split(sep) for a one-character separator
RECURSIVE Split(_, _)
Split(s, sep) ==
  IF \A i \in 1..Len(s) : s[i] # sep THEN <<s>>
  ELSE LET k == CHOOSE i \in 1..Len(s) : s[i] = sep /\ \A j \in 1..(i - 1) : s[j] # sep
       IN  <<SubSeq(s, 1, k - 1)>> \o Split(SubSeq(s, k + 1, Len(s)), sep)

\* [p.strip() for p in parts]
StripAll(parts) == [i \in 1..Len(parts) |-> Strip(parts[i])]

\* sep in s
Contains(s, sep) == \E i \in 1..Len(s) : s[i] = sep

\* value of a run of decimal digits
RECURSIVE DigitsValue(_)
DigitsValue(s) ==
  IF s = <<>> THEN 0
  ELSE 10 * DigitsValue(SubSeq(s, 1, Len(s) - 1)) + DigitVal(s[Len(s)])

AllDigits(s) == Len(s) >= 1 /\ \A i \in 1..Len(s) : IsDigit(s[i])

IsSign(c) == c = "-" \/ c = "+"

\* int(s) succeeds: optional sign, then at least one digit
IntParses(s) ==
  LET t == Strip(s)
  IN  /\ Len(t) >= 1
      /\ IF IsSign(t[1]) THEN AllDigits(Tail(t)) ELSE AllDigits(t)

\* the value int(s) returns when it succeeds
IntValue(s) ==
  LET t == Strip(s)
  IN  IF t[1] = "-" THEN 0 - DigitsValue(Tail(t))
      ELSE IF t[1] = "+" THEN DigitsValue(Tail(t))
      ELSE DigitsValue(t)

\* number of digits of s starting at position p
RECURSIVE DigitRun(_, _)
DigitRun(s, p) ==
  IF p <= Len(s) /\ IsDigit(s[p]) THEN 1 + DigitRun(s, p + 1) ELSE 0

\* the value that stands for Python's None in min_chars / max_chars
None == -1

\* re.match(r'\[(\d+)(?:-(\d+))?\](.+)', s): the groups, or matched = FALSE
CountMatch(s) ==
  LET n1 == DigitRun(s, 2)
      p1 == 2 + n1
      n2 == DigitRun(s, p1 + 1)
      p2 == p1 + 1 + n2
      noMatch == [matched |-> FALSE, g1 |-> <<>>, g2 |-> <<>>, has2 |-> FALSE, g3 |-> <<>>]
  IN  IF Len(s) < 1 \/ s[1] # "[" \/ n1 = 0 \/ p1 > Len(s) THEN noMatch
      ELSE IF s[p1] = "]"
      THEN IF p1 < Len(s)
           THEN [matched |-> TRUE, g1 |-> SubSeq(s, 2, p1 - 1), g2 |-> <<>>,
                 has2 |-> FALSE, g3 |-> SubSeq(s, p1 + 1, Len(s))]
           ELSE noMatch
      ELSE IF s[p1] = "-" /\ n2 >= 1 /\ p2 < Len(s) /\ s[p2] = "]"
      THEN [matched |-> TRUE, g1 |-> SubSeq(s, 2, p1 - 1), g2 |-> SubSeq(s, p1 + 1, p2 - 1),
            has2 |-> TRUE, g3 |-> SubSeq(s, p2 + 1, Len(s))]
      ELSE noMatch

(***************************************************************************)
(* Spec parser.                                                            *)
(***************************************************************************)
\* PromptAgent._parse_characters
parse_characters(characters_str) ==
  LET count_match == CountMatch(characters_str)
      min_c == IF count_match.matched THEN DigitsValue(count_match.g1) ELSE None
      max_c == IF count_match.matched
               THEN (IF count_match.has2 THEN DigitsValue(count_match.g2) ELSE min_c)
               ELSE None
      chars_part == IF count_match.matched THEN count_match.g3 ELSE characters_str
      together == Contains(chars_part, "+")
      split == StripAll(Split(chars_part, IF together THEN "+" ELSE ","))
  IN  [characters |-> IF split = <<ALL>> THEN character_themes ELSE split,
       mode |-> IF together THEN "together" ELSE "separate",
       distribution |-> IF count_match.matched THEN "count_specified" ELSE "auto",
       min_chars |-> min_c,
       max_chars |-> max_c]

\* parts = [p.strip() for p in input_str.split('|')]
Parts(input_str) == StripAll(Split(input_str, "|"))

\* ParseFails as "if len(parts) < 4" would have it
ParseFailsTooFew(input_str) ==
  LET parts == Parts(input_str)
  IN  Len(parts) < 4 \/ ~IntParses(parts[1])

\* parse_input raises ValueError (wrong number of parts, or int() fails)
ParseFails(input_str) ==
  LET parts == Parts(input_str)
  IN  Len(parts) # 4 \/ ~IntParses(parts[1])

\* the dictionary parse_input returns when it does not raise
parse_input(input_str) ==
  LET parts == Parts(input_str)
      acts == StripAll(Split(parts[3], ","))
      locs == StripAll(Split(parts[4], ","))
  IN  [count |-> IntValue(parts[1]),
       char_config |-> parse_characters(parts[2]),
       actions |-> IF acts = <<RANDOM>> THEN Keys(action_templates) ELSE acts,
       locations |-> IF locs = <<RANDOM>> THEN Keys(location_templates) ELSE locs]

(***************************************************************************)
(* Combination generator: the pure parts.                                  *)
(***************************************************************************)
\* RangeLen as "for _ in range(1, n)" would have it
RangeLenFromOne(n) == IF n > 1 THEN n - 1 ELSE 0

\* len(range(n)): the number of iterations of "for _ in range(n)"
RangeLen(n) == IF n > 0 THEN n ELSE 0

\* Copy as "characters[:-1]" would have it
CopyButLast(s) == SubSeq(s, 1, Len(s) - 1)

\* characters[:]
Copy(s) == s

\* SliceIsSameObject as "available_chars = characters" would have it
AssignmentIsSameObject == TRUE

\* whether characters[:] is the list object it was taken from: a slice
\* always builds a new list
SliceIsSameObject == FALSE

\* min(a, b)
Min(a, b) == IF a < b THEN a ELSE b

\* NeedsReset as "if not available_chars" would have it
NeedsResetWhenEmpty(pool, char_count) == Len(pool) = 0

\* len(available_chars) < char_count, the reset test
NeedsReset(pool, char_count) == Len(pool) < char_count

\* the outcomes of random.sample(population, k): k elements at distinct
\* positions, in any order
Samples(population, k) ==
  LET idx == {f \in [1..k -> 1..Len(population)] :
                \A a, b \in 1..k : a # b => f[a] # f[b]}
  IN  {[j \in 1..k |-> population[f[j]]] : f \in idx}

\* list.remove(x): drops the first occurrence of x
RemoveFirst(s, x) ==
  LET k == CHOOSE j \in 1..Len(s) : s[j] = x /\ \A m \in 1..(j - 1) : s[m] # x
  IN  SubSeq(s, 1, k - 1) \o SubSeq(s, k + 1, Len(s))

\* for char in selected: if char in available_chars: available_chars.remove(char)
RECURSIVE RemoveSelected(_, _)
RemoveSelected(pool, selected) ==
  IF selected = <<>> THEN pool
  ELSE RemoveSelected(
         IF \E j \in 1..Len(pool) : pool[j] = selected[1]
         THEN RemoveFirst(pool, selected[1]) ELSE pool,
         Tail(selected))

\* CycleIndex as "min(i, len(characters) - 1)" would have it
CycleIndexClamped(i, n) == IF i < n THEN i + 1 ELSE n

\* i % len(characters) as a position of the 1-based sequence
CycleIndex(i, n) == (i % n) + 1

(***************************************************************************)
(* Prompt renderer.                                                        *)
(***************************************************************************)
\* sep.join(list)
RECURSIVE Join(_, _)
Join(sep, list) ==
  IF list = <<>> THEN <<>>
  ELSE IF Len(list) = 1 THEN list[1]
  ELSE list[1] \o sep \o Join(sep, Tail(list))

\* all(char in self.character_themes for char in characters)
AllKnown(characters) == \A j \in 1..Len(characters) : InCatalog(characters[j])

\* f"{subject} {action} in {location}"
Sentence(subject, act, loc) == subject \o <<" ">> \o act \o <<" ", "i", "n", " ">> \o loc

\* action_templates.get(action, action)
ActionDesc(act) == GetOrKey(action_templates, act)

\* LocationDesc without the catalog lookup
LocationDescRaw(loc) == loc

\* location_templates.get(location, location)
LocationDesc(loc) == GetOrKey(location_templates, loc)

\* PromptAgent._generate_single_character_prompt
generate_single_character_prompt(character, act, loc) ==
  IF ~InCatalog(character) THEN Sentence(character, act, loc)
  ELSE Sentence(character, ActionDesc(act), LocationDesc(loc))

\* the char_phrase of _generate_multi_character_prompt
CharPhrase(characters) ==
  IF Len(characters) = 2
  THEN characters[1] \o <<" ", "a", "n", "d", " ">> \o characters[2]
  ELSE Join(<<",", " ">>, SubSeq(characters, 1, Len(characters) - 1))
         \o <<",", " ", "a", "n", "d", " ">> \o characters[Len(characters)]

\* PromptAgent._generate_multi_character_prompt, where it does not raise
generate_multi_character_prompt(characters, act, loc) ==
  IF ~AllKnown(characters)
  THEN Sentence(Join(<<" ", "a", "n", "d", " ">>, characters), act, loc)
  ELSE Sentence(CharPhrase(characters), ActionDesc(act), LocationDesc(loc))

\* generate_prompt raises IndexError: characters[-1] of an empty list
PromptRaises(characters) == Len(characters) = 0 /\ AllKnown(characters)

\* PromptAgent.generate_prompt, where it does not raise
generate_prompt(characters, act, loc) ==
  IF Len(characters) = 1
  THEN generate_single_character_prompt(characters[1], act, loc)
  ELSE generate_multi_character_prompt(characters, act, loc)

(***************************************************************************)
(* Batch orchestrator: the pure parts.                                     *)
(***************************************************************************)
\* PairIndex as "min(i, len(list) - 1)" would have it
PairIndexClamped(i, n) == IF i < n THEN i + 1 ELSE n

\* i % len(list) as a position of the 1-based sequence
PairIndex(i, n) == (i % n) + 1

\* Caught as "except ValueError" would have it
CaughtValueErrorOnly(e) == e = "ValueError"

\* "except Exception": the exception classes the handler catches
Caught(e) == e \in {"ValueError", "ZeroDivisionError", "IndexError"}

(***************************************************************************)
(* The interactive loop, main() of prompt_agent.py: the pure parts.        *)
(***************************************************************************)
UpperLetters == <<"A", "B", "C", "D", "E", "F", "G", "H", "I", "J", "K", "L", "M", "N", "O", "P", "Q", "R", "S", "T", "U", "V", "W", "X", "Y", "Z">>

LowerLetters == <<"a", "b", "c", "d", "e", "f", "g", "h", "i", "j", "k", "l", "m", "n", "o", "p", "q", "r", "s", "t", "u", "v", "w", "x", "y", "z">>

\* one character of str.lower()
LowerChar(c) ==
  IF \E k \in 1..26 : UpperLetters[k] = c
  THEN LowerLetters[CHOOSE k \in 1..26 : UpperLetters[k] = c]
  ELSE c

\* str.lower()
Lower(s) == [k \in 1..Len(s) |-> LowerChar(s[k])]

\* ['quit', 'exit', 'q']
ExitTokens == {<<"q", "u", "i", "t">>, <<"e", "x", "i", "t">>, <<"q">>}

\* user_input.lower() in ['quit', 'exit', 'q']
IsExit(line) == Lower(line) \in ExitTokens

\* IsYes as "if update != 'n'" would have it
IsNotNo(answer) == answer # <<"n">>

\* update == 'y'
IsYes(answer) == answer = <<"y">>

\* the lines typed at "Enter prompt specs: "
MainLines ==
  {<<"q", "u", "i", "t">>, <<"Q", "U", "I", "T">>, <<"E", "x", "i", "t">>, <<"q">>, <<" ", "Q", " ">>, <<>>, <<" ", " ">>, <<"y">>, <<"q", "u", "i", "t", " ", "n", "o", "w">>,
   <<"2", "|", "O", "r", "c", "a", ",", "F", "i", "s", "h", "|", "j", "u", "m", "p", "|", "z", "o", "o">>, <<"0", "|", "O", "r", "c", "a", "|", "j", "u", "m", "p", "|", "z", "o", "o">>,
   <<"2", "|", "[", "1", "]", "O", "r", "c", "a", ",", "F", "i", "s", "h", "|", "p", "l", "a", "y", "i", "n", "g", "|", "p", "a", "r", "k">>, <<"1", "|", "[", "0", "]", "O", "r", "c", "a", "|", "j", "u", "m", "p", "|", "z", "o", "o">>,
   <<"1", "|", "[", "2", "-", "1", "]", "O", "r", "c", "a", "|", "j", "u", "m", "p", "|", "z", "o", "o">>, <<"2", "|", "O", "r", "c", "a", "+", "F", "i", "s", "h", "|", "j", "u", "m", "p", "|", "m", "o", "u", "n", "t", "a", "i", "n">>}

\* the lines typed at "Update test.py? (y/n): "
Answers == {<<"y">>, <<"Y">>, <<" ", "y", " ">>, <<"n">>, <<>>, <<"y", "e", "s">>}

(***************************************************************************)
(* The inputs tried.                                                       *)
(***************************************************************************)
\* all sequences over S of length at most n
SeqsUpTo(S, n) == UNION {[1..k -> S] : k \in 0..n}

\* first segments: integer literals, signed, padded, and non-integers
CountSegments ==
  {<<Digits[n + 1]>> : n \in 0..MaxCount}
    \cup {<<"-", "1">>, <<"+", "2">>, <<" ", "2", " ">>, <<"x">>, <<>>, <<"2", "x">>, <<"-">>}

\* size brackets: none, [n], and ranges [m-n] that are proper, empty,
\* reversed and zero-based
SizePrefixes ==
  {<<>>}
    \cup {<<"[", Digits[n + 1], "]">> : n \in 0..MaxSize}
    \cup {<<"[", "1", "-", "2", "]">>, <<"[", "2", "-", "1", "]">>, <<"[", "0", "-", "1", "]">>}

\* what follows the size bracket in the second segment
NameBodies ==
  {Join(<<",">>, <<Orca, Fish, Tung>>), Join(<<",">>, <<Orca, Fish>>),
   Join(<<"+">>, <<Orca, Fish>>), Join(<<"+">>, <<Fish, Tung, Orca>>),
   Orca, ALL, Join(<<",">>, <<Orca, Bob>>), Join(<<",">>, <<Orca, Orca>>),
   <<>>, Join(<<",", " ">>, <<Fish, Orca>>)}

\* third and fourth segments: lists of different lengths with known and
\* unknown tokens, and the RANDOM wildcard
ActionLocationSegments ==
  {<<Join(<<",">>, <<playing, eating>>), Join(<<",">>, <<mountain, zoo, park>>)>>,
   <<jump, RANDOM>>}

\* the input lines: four segments, or a segment missing, or one too many
InputStrings ==
  {Join(<<"|">>, <<c, p \o b, al[1], al[2]>>) :
      c \in CountSegments, p \in SizePrefixes, b \in NameBodies,
      al \in ActionLocationSegments}
    \cup {Join(<<"|">>, <<c, b, jump>>) : c \in CountSegments, b \in NameBodies}
    \cup {Join(<<"|">>, <<c, b, jump, zoo, <<>> >>) : c \in CountSegments, b \in NameBodies}

\* the names of the requests handed directly to the generator
DirectNames == {Orca, Fish}

\* the names of the groupings handed directly to the renderer
RenderNames == {Orca, Fish, Bob}

\* char_config dictionaries for a direct call of the generator: what
\* _parse_characters can return, and the empty names list
DirectConfigs ==
  {[characters |-> n, mode |-> m, distribution |-> "auto",
    min_chars |-> None, max_chars |-> None] :
      n \in SeqsUpTo(DirectNames, MaxNames), m \in {"together", "separate"}}
    \cup {[characters |-> n, mode |-> m, distribution |-> "count_specified",
           min_chars |-> lo, max_chars |-> hi] :
      n \in SeqsUpTo(DirectNames, MaxNames), m \in {"together", "separate"},
      lo \in 0..MaxSize, hi \in 0..MaxSize}

NoConfig ==
  [count |-> 0,
   char_config |-> [characters |-> <<>>, mode |-> "separate", distribution |-> "auto",
                    min_chars |-> None, max_chars |-> None],
   actions |-> <<>>, locations |-> <<>>]

NoScene == [characters |-> <<>>, action |-> <<>>, location |-> <<>>]

(***************************************************************************)
(* State.                                                                  *)
(***************************************************************************)
VARIABLES
  entry,              \* the method called: "pipeline" (generate_prompts_from_input),
                      \* "generate" (generate_character_combinations), "render" (generate_prompt)
  pc,                 \* position in the call
  input_str,          \* argument of generate_prompts_from_input
  config,             \* the parsed request (count, char_config, actions, locations)
  available_chars,    \* the draw pool
  combinations_list,  \* the groupings generated so far
  epochs,             \* history: for each grouping, the number of pool resets before its draw
  i,                  \* loop index of the running for loop
  scene,              \* the (characters, action, location) being rendered
  prompts,            \* the rendered strings so far
  exc,                \* the exception raised, or "none"
  result,             \* the value returned
  pool_aliased,       \* available_chars is the request's names list object itself
  grouping_aliased,   \* for each grouping: it is the names list object itself
  \* the interactive loop, main() of prompt_agent.py
  main_pc,            \* position in main(), "none" outside a run of main()
  user_input,         \* the line read, stripped
  main_prompts,       \* main()'s local prompts
  update,             \* the answer to "Update test.py? (y/n)", stripped and lowered
  iter,               \* history of the current iteration: what was called, with what
  \* the image-generation driver, main() of test.py
  d_pc,               \* position in the driver, "none" outside a run of it
  JOINT_PROMPTS,      \* the prompt list the driver runs over
  idx,                \* enumerate(JOINT_PROMPTS, start=1): the current prompt
  d_characters,       \* extract_characters_from_prompt(prompt)
  char_i,             \* position in d_characters of the character being uploaded
  ref_files,          \* the characters whose reference was uploaded
  attempt,            \* loop variable of the running retry loop
  resp,               \* "None", or "resp" once generate_content returned
  upload_calls,       \* history: client.files.upload calls for the current character
  gen_calls,          \* history: generate_content calls for the current prompt
  outcomes,           \* history: for each prompt left behind, how it ended
  saved               \* history: the prompts (by idx) an image file was written for

aliasvars == <<pool_aliased, grouping_aliased>>

loopvars == <<main_pc, user_input, main_prompts, update, iter>>

drivervars == <<d_pc, JOINT_PROMPTS, idx, d_characters, char_i, ref_files, attempt, resp,
                upload_calls, gen_calls, outcomes, saved>>

agentvars == <<entry, pc, input_str, config, available_chars, combinations_list, epochs,
               i, scene, prompts, exc, result, aliasvars>>

vars == <<agentvars, loopvars, drivervars>>

\* locals of generate_character_combinations
characters == config.char_config.characters
mode == config.char_config.mode
distribution == config.char_config.distribution
min_chars == config.char_config.min_chars
max_chars == config.char_config.max_chars
count == config.count

LastEpoch == IF epochs = <<>> THEN 0 ELSE epochs[Len(epochs)]

InitLocals ==
  /\ available_chars = <<>>
  /\ combinations_list = <<>>
  /\ epochs = <<>>
  /\ i = 0
  /\ prompts = <<>>
  /\ exc = "none"
  /\ result = <<>>
  /\ pool_aliased = FALSE
  /\ grouping_aliased = <<>>

NoIteration == [orchestrated |-> FALSE, orchestrator_arg |-> <<>>,
                patched |-> FALSE, patch_arg |-> <<>>]

\* main() of prompt_agent.py is not running
NoLoop ==
  /\ main_pc = "none"
  /\ user_input = <<>>
  /\ main_prompts = <<>>
  /\ update = <<>>
  /\ iter = NoIteration

\* the locals of the driver before its loop
DriverLocals ==
  /\ idx = 1
  /\ d_characters = <<>>
  /\ char_i = 1
  /\ ref_files = <<>>
  /\ attempt = 0
  /\ resp = "None"
  /\ upload_calls = 0
  /\ gen_calls = 0
  /\ outcomes = <<>>
  /\ saved = {}

\* main() of test.py is not running
NoDriver ==
  /\ d_pc = "none"
  /\ JOINT_PROMPTS = <<>>
  /\ DriverLocals

\* generate_prompts_from_input(input_str) is called
InitPipeline ==
  /\ entry = "pipeline"
  /\ pc = "parse"
  /\ input_str \in InputStrings
  /\ config = NoConfig
  /\ scene = NoScene
  /\ InitLocals
  /\ NoLoop
  /\ NoDriver

\* generate_character_combinations(char_config, count) is called
InitGenerate ==
  /\ entry = "generate"
  /\ pc = "enter_generate"
  /\ input_str = <<>>
  /\ \E cc \in DirectConfigs, n \in (0 - 1)..MaxCount :
       config = [count |-> n, char_config |-> cc, actions |-> <<>>, locations |-> <<>>]
  /\ scene = NoScene
  /\ InitLocals
  /\ NoLoop
  /\ NoDriver

\* generate_prompt(characters, action, location) is called
InitRender ==
  /\ entry = "render"
  /\ pc = "render"
  /\ input_str = <<>>
  /\ config = NoConfig
  /\ \E cs \in SeqsUpTo(RenderNames, MaxNames), a \in {playing, jump}, l \in {mountain, zoo} :
       scene = [characters |-> cs, action |-> a, location |-> l]
  /\ InitLocals
  /\ NoLoop
  /\ NoDriver

\* main() of prompt_agent.py starts: agent = PromptAgent(), nothing called yet
InitLoop ==
  /\ entry = "pipeline"
  /\ pc = "idle"
  /\ input_str = <<>>
  /\ config = NoConfig
  /\ scene = NoScene
  /\ InitLocals
  /\ main_pc = "read"
  /\ user_input = <<>>
  /\ main_prompts = <<>>
  /\ update = <<>>
  /\ iter = NoIteration
  /\ NoDriver

Init == InitPipeline \/ InitGenerate \/ InitRender \/ InitLoop

(***************************************************************************)
(* Actions.                                                                *)
(***************************************************************************)
\* raise e: into the try block's handler, or out of a direct call
Raise(e) ==
  /\ exc' = e
  /\ pc' = IF entry = "pipeline" THEN "except" ELSE "raised"

\* config = self.parse_input(input_str)
Parse ==
  /\ pc = "parse"
  /\ IF ParseFails(input_str)
     THEN /\ Raise("ValueError")
          /\ UNCHANGED config
     ELSE /\ config' = parse_input(input_str)
          /\ pc' = "enter_generate"
          /\ UNCHANGED exc
  /\ UNCHANGED <<loopvars, drivervars, aliasvars, entry, input_str, available_chars, combinations_list, epochs, i,
                 scene, prompts, result>>

\* entry of generate_character_combinations: combinations_list = [] and,
\* in the count_specified branch, available_chars = characters[:]
GenerateEnter ==
  /\ pc = "enter_generate"
  /\ pc' = "generate"
  /\ combinations_list' = <<>>
  /\ available_chars' = IF mode = "separate" /\ distribution = "count_specified"
                        THEN Copy(characters) ELSE available_chars
  /\ pool_aliased' = IF mode = "separate" /\ distribution = "count_specified"
                     THEN SliceIsSameObject ELSE pool_aliased
  /\ grouping_aliased' = <<>>
  /\ i' = 0
  /\ UNCHANGED <<loopvars, drivervars, entry, input_str, config, epochs, scene, prompts, exc, result>>

\* mode == 'together': one iteration of the loop
GenerateTogether ==
  /\ pc = "generate"
  /\ mode = "together"
  /\ i < RangeLen(count)
  /\ combinations_list' = Append(combinations_list, Copy(characters))
  /\ grouping_aliased' = Append(grouping_aliased, SliceIsSameObject)
  /\ epochs' = Append(epochs, LastEpoch)
  /\ i' = i + 1
  /\ UNCHANGED pool_aliased
  /\ UNCHANGED <<loopvars, drivervars, entry, pc, input_str, config, available_chars, scene, prompts, exc, result>>

\* distribution == 'count_specified': one iteration of the loop, for
\* the size char_count that was fixed or that random.randint returned.
\* list.remove works in place: were the pool the names list object itself,
\* the request's names would lose the selected names with it.
GenerateDraw(char_count) ==
  LET reset == NeedsReset(available_chars, char_count)
      pool == IF reset THEN Copy(characters) ELSE available_chars
      same == IF reset THEN SliceIsSameObject ELSE pool_aliased
  IN  \E selected \in Samples(pool, Min(char_count, Len(pool))) :
        /\ combinations_list' = Append(combinations_list, selected)
        /\ grouping_aliased' = Append(grouping_aliased, FALSE)
        /\ available_chars' = RemoveSelected(pool, selected)
        /\ pool_aliased' = same
        /\ config' = IF same
                     THEN [config EXCEPT !.char_config.characters =
                                            RemoveSelected(pool, selected)]
                     ELSE config
        /\ epochs' = Append(epochs, IF reset THEN LastEpoch + 1 ELSE LastEpoch)
        /\ i' = i + 1
        /\ UNCHANGED <<loopvars, drivervars, entry, pc, input_str, scene, prompts, exc, result>>

GenerateCounted ==
  /\ pc = "generate"
  /\ mode = "separate"
  /\ distribution = "count_specified"
  /\ i < RangeLen(count)
  /\ IF min_chars = max_chars
     THEN GenerateDraw(min_chars)
     ELSE \E char_count \in min_chars..max_chars : GenerateDraw(char_count)

\* random.randint(min_chars, max_chars) raises ValueError on an empty range
GenerateRandintRaises ==
  /\ pc = "generate"
  /\ mode = "separate"
  /\ distribution = "count_specified"
  /\ i < RangeLen(count)
  /\ min_chars # max_chars
  /\ min_chars > max_chars
  /\ Raise("ValueError")
  /\ UNCHANGED <<loopvars, drivervars, aliasvars, entry, input_str, config, available_chars, combinations_list, epochs,
                 i, scene, prompts, result>>

\* distribution 'auto': one iteration of the cycling loop
GenerateCycle ==
  /\ pc = "generate"
  /\ mode = "separate"
  /\ distribution # "count_specified"
  /\ i < RangeLen(count)
  /\ IF Len(characters) = 0
     THEN /\ Raise("ZeroDivisionError")
          /\ UNCHANGED <<combinations_list, grouping_aliased, epochs, i>>
     ELSE /\ combinations_list' =
               Append(combinations_list, <<characters[CycleIndex(i, Len(characters))]>>)
          /\ grouping_aliased' = Append(grouping_aliased, FALSE)
          /\ epochs' = Append(epochs, LastEpoch)
          /\ i' = i + 1
          /\ UNCHANGED <<pc, exc>>
  /\ UNCHANGED <<loopvars, drivervars, pool_aliased, entry, input_str, config, available_chars, scene, prompts, result>>

\* return combinations_list
GenerateReturn ==
  /\ pc = "generate"
  /\ i >= RangeLen(count)
  /\ IF entry = "generate"
     THEN /\ pc' = "done"
          /\ result' = combinations_list
          /\ UNCHANGED i
     ELSE /\ pc' = "render"
          /\ i' = 0
          /\ UNCHANGED result
  /\ UNCHANGED <<loopvars, drivervars, aliasvars, entry, input_str, config, available_chars, combinations_list, epochs,
                 scene, prompts, exc>>

\* one iteration of "for i, characters in enumerate(char_combinations)"
RenderStep ==
  /\ entry = "pipeline"
  /\ pc = "render"
  /\ i < Len(combinations_list)
  /\ LET cs == combinations_list[i + 1]
         a == config.actions[PairIndex(i, Len(config.actions))]
         l == config.locations[PairIndex(i, Len(config.locations))]
     IN  /\ scene' = [characters |-> cs, action |-> a, location |-> l]
         /\ IF PromptRaises(cs)
            THEN /\ Raise("IndexError")
                 /\ UNCHANGED <<prompts, i>>
            ELSE /\ prompts' = Append(prompts, generate_prompt(cs, a, l))
                 /\ i' = i + 1
                 /\ UNCHANGED <<pc, exc>>
  /\ UNCHANGED <<loopvars, drivervars, aliasvars, entry, input_str, config, available_chars, combinations_list, epochs, result>>

\* return prompts
ReturnPrompts ==
  /\ entry = "pipeline"
  /\ pc = "render"
  /\ i >= Len(combinations_list)
  /\ pc' = "done"
  /\ result' = prompts
  /\ UNCHANGED <<loopvars, drivervars, aliasvars, entry, input_str, config, available_chars, combinations_list, epochs,
                 i, scene, prompts, exc>>

\* except Exception as e: ... return []
Except ==
  /\ pc = "except"
  /\ IF Caught(exc)
     THEN /\ pc' = "done"
          /\ result' = <<>>
     ELSE /\ pc' = "raised"
          /\ UNCHANGED result
  /\ UNCHANGED <<loopvars, drivervars, aliasvars, entry, input_str, config, available_chars, combinations_list, epochs,
                 i, scene, prompts, exc>>

\* a direct call of generate_prompt
CallGeneratePrompt ==
  /\ entry = "render"
  /\ pc = "render"
  /\ IF PromptRaises(scene.characters)
     THEN /\ Raise("IndexError")
          /\ UNCHANGED result
     ELSE /\ pc' = "done"
          /\ result' = generate_prompt(scene.characters, scene.action, scene.location)
          /\ UNCHANGED exc
  /\ UNCHANGED <<loopvars, drivervars, aliasvars, entry, input_str, config, available_chars, combinations_list, epochs,
                 i, scene, prompts>>

\* user_input = input(...).strip() and what main() does with it: break on
\* an exit token, continue on an empty line, else call the orchestrator.
\* The call starts with fresh locals; what an earlier call left in the
\* draw pool is not cleared by anything.
ReadLine ==
  /\ main_pc = "read"
  /\ \E line \in MainLines :
       LET stripped == Strip(line)
       IN  /\ user_input' = stripped
           /\ IF IsExit(stripped)
              THEN /\ main_pc' = "exit"
                   /\ iter' = NoIteration
                   /\ UNCHANGED agentvars
              ELSE IF stripped = <<>>
              THEN /\ main_pc' = "read"
                   /\ iter' = NoIteration
                   /\ UNCHANGED agentvars
              ELSE /\ main_pc' = "called"
                   /\ iter' = [NoIteration EXCEPT !.orchestrated = TRUE,
                                                  !.orchestrator_arg = stripped]
                   /\ pc' = "parse"
                   /\ input_str' = stripped
                   /\ config' = NoConfig
                   /\ scene' = NoScene
                   /\ combinations_list' = <<>>
                   /\ grouping_aliased' = <<>>
                   /\ epochs' = <<>>
                   /\ i' = 0
                   /\ prompts' = <<>>
                   /\ exc' = "none"
                   /\ result' = <<>>
                   /\ UNCHANGED <<entry, available_chars, pool_aliased>>
  /\ UNCHANGED <<main_prompts, update, drivervars>>

\* prompts = agent.generate_prompts_from_input(user_input) has returned:
\* "if not prompts: continue"; an exception would be printed by main()
OrchestratorReturns ==
  /\ main_pc = "called"
  /\ pc \in {"done", "raised"}
  /\ IF pc = "raised"
     THEN /\ main_pc' = "read"
          /\ UNCHANGED main_prompts
     ELSE /\ main_prompts' = result
          /\ main_pc' = IF result = <<>> THEN "read" ELSE "ask"
  /\ UNCHANGED <<agentvars, user_input, update, iter, drivervars>>

\* update = input("Update test.py? (y/n): ").strip().lower() and
\* "if update == 'y': agent.update_test_py(prompts)"
AnswerUpdate ==
  /\ main_pc = "ask"
  /\ \E answer \in Answers :
       /\ update' = Lower(Strip(answer))
       /\ iter' = IF IsYes(Lower(Strip(answer)))
                  THEN [iter EXCEPT !.patched = TRUE, !.patch_arg = main_prompts]
                  ELSE iter
  /\ main_pc' = "read"
  /\ UNCHANGED <<agentvars, user_input, main_prompts, drivervars>>

Next ==
  \/ ReadLine
  \/ OrchestratorReturns
  \/ AnswerUpdate
  \/ Parse
  \/ GenerateEnter
  \/ GenerateTogether
  \/ GenerateCounted
  \/ GenerateRandintRaises
  \/ GenerateCycle
  \/ GenerateReturn
  \/ RenderStep
  \/ ReturnPrompts
  \/ Except
  \/ CallGeneratePrompt

Spec == Init /\ [][Next]_vars

(***************************************************************************)
(* The image-generation driver, test.py.  The remote client is the         *)
(* environment: each upload and each generate_content call either returns  *)
(* or raises, a reference file exists or not, and a response carries no    *)
(* candidates, no image part, or image parts that are saved.               *)
(***************************************************************************)
MAX_RETRIES == 5

\* the keys of CHARACTER_REFS, cut down to two, in declaration order
CHARACTER_REFS == <<Orca, Fish>>

\* the words that select every character
AllKeywords == {<<"a", "l", "l">>, <<"f", "i", "v", "e">>,
                <<"e", "v", "e", "r", "y", "o", "n", "e">>,
                <<"t", "o", "g", "e", "t", "h", "e", "r">>}

\* sub in s
IsSubstring(sub, s) ==
  \E k \in 0..(Len(s) - Len(sub)) : SubSeq(s, k + 1, k + Len(sub)) = sub

extract_characters_from_prompt(prompt) ==
  IF \E word \in AllKeywords : IsSubstring(word, Lower(prompt))
  THEN CHARACTER_REFS
  ELSE SelectSeq(CHARACTER_REFS, LAMBDA character : IsSubstring(character, prompt))

\* range(MAX_RETRIES)
RetryRange == 0..(MAX_RETRIES - 1)

\* attempt < MAX_RETRIES - 1: the failed attempt is followed by another one
MayRetry(a) == a < MAX_RETRIES - 1

ExitsRetryLoopOnlyAfterLast(ok, a) == ~MayRetry(a)
\* the retry loop around generate_content is left: break after the call
\* returned, break in the handlers after the last attempt
ExitsRetryLoop(ok, a) == ok \/ ~MayRetry(a)

\* the prompts the driver is run over: one names a character, one names
\* none, one holds a keyword that selects every character
DriverPrompts ==
  { Orca \o <<" ">> \o jump,
    Bob \o <<" ">> \o jump,
    ALL \o <<" ">> \o jump }

\* how the driver left a prompt: generated is "the last generate_content
\* call returned", refs the number of references uploaded
Outcome(kind, refs, generated) == [kind |-> kind, refs |-> refs, generated |-> generated]

\* main() of test.py starts
InitDriver ==
  /\ entry = "driver"
  /\ pc = "idle"
  /\ input_str = <<>>
  /\ config = NoConfig
  /\ scene = NoScene
  /\ InitLocals
  /\ NoLoop
  /\ d_pc = "loop"
  /\ JOINT_PROMPTS \in SeqsUpTo(DriverPrompts, MaxPrompts)
  /\ DriverLocals

\* continue: on to the next prompt
NextPrompt(outcome) ==
  /\ outcomes' = Append(outcomes, outcome)
  /\ idx' = idx + 1
  /\ d_pc' = "loop"

\* the for loop over JOINT_PROMPTS is exhausted and main() returns
DriverExit ==
  /\ d_pc = "loop"
  /\ idx > Len(JOINT_PROMPTS)
  /\ d_pc' = "exit"
  /\ UNCHANGED <<agentvars, loopvars, JOINT_PROMPTS, idx, d_characters, char_i, ref_files,
                 attempt, resp, upload_calls, gen_calls, outcomes, saved>>

\* the next prompt: its characters are extracted; without any it is skipped
ExtractCharacters ==
  /\ d_pc = "loop"
  /\ idx <= Len(JOINT_PROMPTS)
  /\ d_characters' = extract_characters_from_prompt(JOINT_PROMPTS[idx])
  /\ IF d_characters' = <<>>
     THEN /\ NextPrompt(Outcome("skipped", 0, FALSE))
          /\ UNCHANGED <<char_i, ref_files>>
     ELSE /\ d_pc' = "upload"
          /\ char_i' = 1
          /\ ref_files' = <<>>
          /\ UNCHANGED <<idx, outcomes>>
  /\ UNCHANGED <<agentvars, loopvars, JOINT_PROMPTS, attempt, resp, upload_calls, gen_calls, saved>>

\* upload_ref_for_character is called for the next character: a missing
\* reference file returns None, otherwise the upload retry loop starts
UploadStart ==
  /\ d_pc = "upload"
  /\ char_i <= Len(d_characters)
  /\ \E exists \in BOOLEAN :
       IF \E k \in 1..Len(CHARACTER_REFS) : CHARACTER_REFS[k] = d_characters[char_i]
          /\ exists
       THEN /\ d_pc' = "uploading"
            /\ attempt' = 0
            /\ upload_calls' = 0
            /\ UNCHANGED char_i
       ELSE /\ char_i' = char_i + 1
            /\ UNCHANGED <<d_pc, attempt, upload_calls>>
  /\ UNCHANGED <<agentvars, loopvars, JOINT_PROMPTS, idx, d_characters, ref_files, resp,
                 gen_calls, outcomes, saved>>

\* one client.files.upload call: it returns and the reference is kept, or
\* it raises and is retried unless this was the last attempt
UploadAttempt ==
  /\ d_pc = "uploading"
  /\ attempt \in RetryRange
  /\ upload_calls' = upload_calls + 1
  /\ \E ok \in BOOLEAN :
       IF ok
       THEN /\ ref_files' = Append(ref_files, d_characters[char_i])
            /\ char_i' = char_i + 1
            /\ d_pc' = "upload"
            /\ UNCHANGED attempt
       ELSE IF MayRetry(attempt)
            THEN /\ attempt' = attempt + 1
                 /\ UNCHANGED <<ref_files, char_i, d_pc>>
            ELSE /\ char_i' = char_i + 1
                 /\ d_pc' = "upload"
                 /\ UNCHANGED <<ref_files, attempt>>
  /\ UNCHANGED <<agentvars, loopvars, JOINT_PROMPTS, idx, d_characters, resp, gen_calls,
                 outcomes, saved>>

\* upload_refs_for_characters has returned: without any reference the
\* prompt is skipped, otherwise resp = None and the generate retry loop starts
UploadsDone ==
  /\ d_pc = "upload"
  /\ char_i > Len(d_characters)
  /\ IF ref_files = <<>>
     THEN /\ NextPrompt(Outcome("skipped", 0, FALSE))
          /\ UNCHANGED <<attempt, resp, gen_calls>>
     ELSE /\ d_pc' = "generate"
          /\ attempt' = 0
          /\ resp' = "None"
          /\ gen_calls' = 0
          /\ UNCHANGED <<idx, outcomes>>
  /\ UNCHANGED <<agentvars, loopvars, JOINT_PROMPTS, d_characters, char_i, ref_files,
                 upload_calls, saved>>

\* one client.models.generate_content call: it returns and resp is bound,
\* or it raises (ClientError or any other Exception) and resp stays as it was
GenerateAttempt ==
  /\ d_pc = "generate"
  /\ attempt \in RetryRange
  /\ gen_calls' = gen_calls + 1
  /\ \E ok \in BOOLEAN :
       /\ resp' = IF ok THEN "resp" ELSE resp
       /\ IF ExitsRetryLoop(ok, attempt)
          THEN d_pc' = "check" /\ UNCHANGED attempt
          ELSE IF attempt + 1 \in RetryRange
               THEN d_pc' = "generate" /\ attempt' = attempt + 1
               ELSE d_pc' = "check" /\ UNCHANGED attempt
  /\ UNCHANGED <<agentvars, loopvars, JOINT_PROMPTS, idx, d_characters, char_i, ref_files,
                 upload_calls, outcomes, saved>>

\* after the retry loop: without a response the prompt is skipped
NoResponse ==
  /\ d_pc = "check"
  /\ resp = "None"
  /\ NextPrompt(Outcome("skipped", Len(ref_files), FALSE))
  /\ UNCHANGED <<agentvars, loopvars, JOINT_PROMPTS, d_characters, char_i, ref_files,
                 attempt, resp, upload_calls, gen_calls, saved>>

\* the response is processed: no candidates, no image part, or the image
\* parts are saved
ProcessResponse ==
  /\ d_pc = "check"
  /\ resp # "None"
  /\ \E shape \in {"no_candidates", "no_image", "image"} :
       saved' = IF shape = "image" THEN saved \cup {idx} ELSE saved
  /\ NextPrompt(Outcome("processed", Len(ref_files), TRUE))
  /\ UNCHANGED <<agentvars, loopvars, JOINT_PROMPTS, d_characters, char_i, ref_files,
                 attempt, resp, upload_calls, gen_calls>>

NextDriver ==
  \/ DriverExit
  \/ ExtractCharacters
  \/ UploadStart
  \/ UploadAttempt
  \/ UploadsDone
  \/ GenerateAttempt
  \/ NoResponse
  \/ ProcessResponse

\* the driver is one sequential program: it keeps executing, every sleep
\* ends and every call to the client returns or raises
SpecDriver == InitDriver /\ [][NextDriver]_vars /\ WF_vars(NextDriver)

(***************************************************************************)
(* Properties.                                                             *)
(***************************************************************************)
\* max(0, n), written out for the properties
AtLeastZero(n) == IF n >= 0 THEN n ELSE 0

\* the direct call of the generator has finished, by return or by raise
GenerateFinished == entry = "generate" /\ pc \in {"done", "raised"}

\* C1: generate_character_combinations returns exactly sceneCount groupings
\* when sceneCount > 0 and an empty sequence when sceneCount <= 0, for
\* every request (any mode, any sizing, any names list).
C1_GenerateLength ==
  GenerateFinished => (pc = "done" /\ Len(result) = AtLeastZero(count))

\* C2: generate_prompts_from_input never propagates an exception; when any
\* stage fails it returns the empty sequence, not the prompts rendered so far.
C2_NoPropagation ==
  entry = "pipeline" =>
    /\ pc # "raised"
    /\ (pc = "done" /\ exc # "none") => result = <<>>

\* a scene failed to render after an earlier one had been rendered, and the
\* call returned
C2_Witness ==
  /\ entry = "pipeline"
  /\ pc = "done"
  /\ exc = "IndexError"
  /\ prompts # <<>>
  /\ result = <<>>

\* C3: when the spec parses and nothing raises, generate_prompts_from_input
\* returns exactly max(0, count) strings; a zero or negative count gives
\* the empty result and no error.
C3_ResultLength ==
  (entry = "pipeline" /\ pc = "done" /\ exc = "none") =>
    Len(result) = AtLeastZero(count)

C3_Witness ==
  /\ entry = "pipeline"
  /\ pc = "done"
  /\ exc = "none"
  /\ count = 2
  /\ Len(result) = 2

\* the number of '|' characters of s
BarCount(s) == Cardinality({k \in 1..Len(s) : s[k] = "|"})

\* the text before the first '|' of s, without the blanks around it
FirstSegmentText(s) ==
  LET stop == IF BarCount(s) = 0 THEN Len(s) + 1
              ELSE CHOOSE k \in 1..Len(s) : s[k] = "|" /\ \A m \in 1..(k - 1) : s[m] # "|"
      inked == {k \in 1..(stop - 1) : s[k] # " "}
  IN  IF inked = {} THEN <<>>
      ELSE SubSeq(s, CHOOSE k \in inked : \A m \in inked : k <= m,
                     CHOOSE k \in inked : \A m \in inked : k >= m)

\* t is an optionally signed run of decimal digits
IsIntegerText(t) ==
  LET body == IF t # <<>> /\ t[1] \in {"+", "-"} THEN Tail(t) ELSE t
  IN  /\ body # <<>>
      /\ \A k \in 1..Len(body) :
           body[k] \in {"0", "1", "2", "3", "4", "5", "6", "7", "8", "9"}

\* parse_input has run and returned a request
ParseReturned == entry = "pipeline" /\ pc # "parse" /\ config # NoConfig

\* parse_input has run and raised
ParseRaised == entry = "pipeline" /\ pc # "parse" /\ config = NoConfig

C5_Pairing ==
  (entry = "pipeline" /\ pc \in {"render", "except", "done"}) =>
    /\ Len(prompts) <= Len(combinations_list)
    /\ \A k \in 1..Len(prompts) :
         prompts[k] =
           generate_prompt(combinations_list[k],
                           config.actions[((k - 1) % Len(config.actions)) + 1],
                           config.locations[((k - 1) % Len(config.locations)) + 1])
    /\ (pc = "done" /\ exc = "none") => result = prompts

\* three scenes over two actions: the action list has wrapped around
C5_Witness ==
  /\ entry = "pipeline"
  /\ pc = "done"
  /\ exc = "none"
  /\ Len(result) = 3
  /\ Len(config.actions) = 2
  /\ Len(config.locations) = 3
  /\ result[1] # result[3]

\* the smaller of two numbers, written out for the properties
Smaller(a, b) == IF a <= b THEN a ELSE b

\* C6: for mode Separate and sizing Fixed(n) every grouping has length
\* exactly min(n, len(names)), reset or no reset.
C6_FixedSize ==
  (pc # "parse" /\ mode = "separate" /\ distribution = "count_specified"
     /\ min_chars = max_chars) =>
    \A k \in 1..Len(combinations_list) :
      Len(combinations_list[k]) = Smaller(min_chars, Len(characters))

\* Fixed(2) over three names: the second grouping was drawn after a reset
C6_Witness ==
  /\ mode = "separate"
  /\ distribution = "count_specified"
  /\ min_chars = 2
  /\ max_chars = 2
  /\ Len(characters) = 3
  /\ Len(combinations_list) >= 2
  /\ epochs[2] = 1

\* C7: for mode Separate with Fixed or Range sizing, within one pool epoch
\* no character name appears in two different groupings, for every names
\* list the parser can produce.
C7_NoRepeatInEpoch ==
  (entry = "pipeline" /\ mode = "separate" /\ distribution = "count_specified") =>
    \A a, b \in 1..Len(combinations_list) :
      (a < b /\ epochs[a] = epochs[b]) =>
        ~\E m \in 1..Len(combinations_list[a]), n \in 1..Len(combinations_list[b]) :
           combinations_list[a][m] = combinations_list[b][n]

\* C8: for mode Together every grouping equals the full names list in its
\* original order, whatever size bracket the spec carries.
C8_Together ==
  (pc # "parse" /\ mode = "together") =>
    \A k \in 1..Len(combinations_list) : combinations_list[k] = characters

\* a '+' spec with a size bracket smaller than the names list
C8_Witness ==
  /\ entry = "pipeline"
  /\ mode = "together"
  /\ distribution = "count_specified"
  /\ max_chars < Len(characters)
  /\ Len(combinations_list) >= 2

\* C9: for mode Separate with sizing Unspecified and a non-empty names list
\* the i-th grouping is [names[i mod len(names)]]; the groupings are a
\* function of the request.
C9_Cycle ==
  (pc # "parse" /\ mode = "separate" /\ distribution = "auto" /\ Len(characters) > 0) =>
    \A k \in 1..Len(combinations_list) :
      combinations_list[k] = <<characters[((k - 1) % Len(characters)) + 1]>>

\* more scenes than names: the cycle has wrapped around
C9_Witness ==
  /\ mode = "separate"
  /\ distribution = "auto"
  /\ Len(characters) = 2
  /\ characters[1] # characters[2]
  /\ Len(combinations_list) = 3

\* the display string of a location: only "mountain" has one that differs
LocationDisplay(loc) == IF loc = mountain THEN snowy_mountain_landscape ELSE loc

\* "a", "a and b", "a, b, and c", ...
RECURSIVE CommaList(_)
CommaList(names) ==
  IF Len(names) = 1 THEN names[1]
  ELSE names[1] \o <<",", " ">> \o CommaList(Tail(names))

Subject(names) ==
  IF Len(names) = 1 THEN names[1]
  ELSE IF Len(names) = 2 THEN names[1] \o <<" ", "a", "n", "d", " ">> \o names[2]
  ELSE CommaList(SubSeq(names, 1, Len(names) - 1))
         \o <<",", " ", "a", "n", "d", " ">> \o names[Len(names)]

\* C10: generate_prompt on known catalog characters returns
\* "{subject} {action_display} in {location_display}" with subject the
\* name, "a and b", or "a, b, and c"; an action or location that is not in
\* the catalog is rendered as the raw token.
C10_Render ==
  (entry = "render" /\ pc = "done" /\ Len(scene.characters) >= 1
     /\ \A k \in 1..Len(scene.characters) : scene.characters[k] \in {Orca, Tung, Fish}) =>
    result = Subject(scene.characters) \o <<" ">> \o scene.action
               \o <<" ", "i", "n", " ">> \o LocationDisplay(scene.location)

\* three known names at a location with a display string
C10_Witness ==
  /\ entry = "render"
  /\ pc = "done"
  /\ scene.characters = <<Fish, Orca, Fish>>
  /\ scene.location = mountain
  /\ scene.action = jump

\* the direct call of the renderer has finished, by return or by raise
RenderFinished == entry = "render" /\ pc \in {"done", "raised"}

\* C11: generate_prompt on a zero-name grouping does not fail: it returns
\* "{action} in {location}" built from the raw tokens, with no subject.
C11_EmptyGrouping ==
  (RenderFinished /\ Len(scene.characters) = 0) =>
    /\ pc = "done"
    /\ result = scene.action \o <<" ", "i", "n", " ">> \o scene.location

\* C12: with an empty names list generate_character_combinations raises no
\* error in any mode or sizing, and every grouping it returns is empty.
\* Stated for the requests whose size bracket is well-formed (min <= max),
\* so that the only thing unusual about the request is the empty list.
C12_EmptyNames ==
  (GenerateFinished /\ Len(characters) = 0
     /\ (distribution = "count_specified" => min_chars <= max_chars)) =>
    /\ pc = "done"
    /\ Len(result) = AtLeastZero(count)
    /\ \A k \in 1..Len(result) : result[k] = <<>>

\* C13: every request the parser returns with a size bracket satisfies
\* 1 <= min <= max, so a bracket with min = 0 or min > max never reaches
\* the combination generator as a Range/Fixed request.
C13_BracketValid ==
  (ParseReturned /\ distribution = "count_specified") =>
    (1 <= min_chars /\ min_chars <= max_chars)

\* one character with its case folded, for the letters of the exit tokens
FoldChar(c) ==
  IF c = "Q" THEN "q" ELSE IF c = "U" THEN "u" ELSE IF c = "I" THEN "i"
  ELSE IF c = "T" THEN "t" ELSE IF c = "E" THEN "e" ELSE IF c = "X" THEN "x" ELSE c

\* the text is quit, exit or q in any letter case
IsExitText(s) ==
  LET folded == [k \in 1..Len(s) |-> FoldChar(s[k])]
  IN  \/ folded = <<"q", "u", "i", "t">>
      \/ folded = <<"e", "x", "i", "t">>
      \/ folded = <<"q">>

\* C14: in the interactive loop update_test_py is invoked only in an
\* iteration where the orchestrator returned a non-empty prompt list and
\* the user then answered 'y', and it receives exactly that list; an exit
\* token (any letter case) or an empty line reaches neither the
\* orchestrator nor the patcher, and an exit token ends the loop.
C14_Loop ==
  main_pc # "none" =>
    /\ iter.patched =>
         /\ iter.orchestrated
         /\ pc = "done"
         /\ result # <<>>
         /\ iter.patch_arg = result
         /\ update = <<"y">>
    /\ iter.orchestrated =>
         /\ iter.orchestrator_arg = user_input
         /\ user_input # <<>>
         /\ ~IsExitText(user_input)
    /\ (IsExitText(user_input) \/ user_input = <<>>) =>
         (~iter.orchestrated /\ ~iter.patched)
    /\ IsExitText(user_input) <=> main_pc = "exit"

\* the user answered 'y' and the two prompts just generated were handed
\* to update_test_py
C14_Witness ==
  /\ main_pc = "read"
  /\ iter.patched
  /\ Len(iter.patch_arg) = 2
  /\ iter.patch_arg = result

\* the number of positions of list that hold x
Occurrences(list, x) == Cardinality({k \in 1..Len(list) : list[k] = x})

\* every element occurs in part at most as often as in whole
SubMultiset(part, whole) ==
  \A k \in 1..Len(part) : Occurrences(part, part[k]) <= Occurrences(whole, part[k])

\* the count_specified loop of generate_character_combinations is running
Drawing == pc = "generate" /\ mode = "separate" /\ distribution = "count_specified"

\* C15: the draw pool is local to one generate_character_combinations
\* call: the call never modifies the request's names list, it starts with
\* the pool equal to the full names list whatever an earlier call left
\* behind, the pool is a sub-multiset of names at every step, and the
\* groupings of Together mode are copies, not the names list itself.
C15_PoolLocal ==
  /\ [](/\ Drawing => SubMultiset(available_chars, characters)
        /\ (Drawing /\ i = 0) => available_chars = characters
        /\ Drawing => ~pool_aliased
        /\ \A k \in 1..Len(grouping_aliased) : ~grouping_aliased[k])
  /\ [][(pc = "enter_generate" \/ pc = "generate") => characters' = characters]_vars

\* in the interactive loop, a later call has drawn one grouping from a
\* two-name request: the pool has shrunk and the names list has not
C15_Witness ==
  /\ main_pc = "called"
  /\ Drawing
  /\ i = 1
  /\ Len(characters) = 2
  /\ Len(available_chars) = 1
  /\ Len(main_prompts) = 2

\* the driver left prompt k without a generated response: no reference was
\* uploaded, or every generate_content attempt failed
NothingGenerated(k) == outcomes[k].refs = 0 \/ ~outcomes[k].generated

\* the driver is about to give up on the current prompt: no reference
\* uploaded, or the retry loop ended without a response
GivingUp ==
  \/ d_pc = "upload" /\ char_i > Len(d_characters) /\ ref_files = <<>>
  \/ d_pc = "check" /\ resp = "None"

====
